---- MODULE Spec2Model ----
(***************************************************************************)
(* Per-user conversational memory of the Cat Supremacy bot (src/memory.py) *)
(* and the handlers of src/bot.py that drive it.                           *)
(*                                                                         *)
(* Representation.                                                         *)
(*   - Message texts and user names are opaque TLA+ strings.               *)
(*   - long_term_notes and extracted facts are sequences of character      *)
(*     codes, because the code slices, joins, strips and upper-cases them. *)
(*   - Python objects are modelled by reference: heap is the sequence of   *)
(*     UserMemory objects allocated by this process, and a reference is an *)
(*     index into it.  _store is an insertion-ordered dict: a sequence of  *)
(*     [uid, ref] entries with distinct uids.                              *)
(*   - time.time() is the integer variable now (seconds).                  *)
(***************************************************************************)
EXTENDS Integers, Sequences, FiniteSets, TLC

VARIABLES
    heap,       \* UserMemory objects of the running process
    store,      \* memory._store : ordered dict uid -> reference
    disk,       \* content of MEMORY_FILE
    now,        \* time.time()
    turns,      \* chat turns (on_command_error coroutines) and their position
    tasks,      \* background extract_and_update_memories tasks
    env,        \* faults: failed writes and restarts the environment may still
                \* cause; loaded: load_all has run in this process
    appended,   \* history: per user, every add_exchange call in call order,
                \*          <<question, answer, turn>> (turn 0: a direct call)
    chatOrder,  \* history: turns in the order their ask_cat call returned
    merged,     \* history: per user, every fact string merged into the notes
    saveCalls,  \* history: number of save_all calls the last step made
    lastSaved,  \* history: the Store as of the last successful save_all
    lastOp      \* history: the operation that produced the current state

progVars  == <<heap, store, disk, now, turns, tasks, env>>
histVars  == <<appended, chatOrder, merged, saveCalls, lastSaved, lastOp>>
vars      == <<heap, store, disk, now, turns, tasks, env,
               appended, chatOrder, merged, saveCalls, lastSaved, lastOp>>

---------------------------------------------------------------------------
(* Tunables of src/memory.py *)
MAX_RECENT_MESSAGES == 10
MAX_MEMORY_CHARS == 1000
MEMORY_TTL_DAYS == 30
SecondsPerDay == 86400

(* Bounds of the model *)
MaxExchanges == 12      \* add_exchange calls in SpecWindow
MaxMerges == 3          \* extraction tasks in SpecMerge
MaxTouches == 1         \* exchanges, and merges, per user in SpecPrune and SpecPersist
MaxFaults == 1          \* failed writes and process restarts in SpecPersist
MaxTurns == 2           \* chat turns in SpecTurns
FactLen == 600          \* length of the long facts an extraction returns
StartTime == 1700000000 \* time.time() at the start of a run

UserIds == {7, 42, 1234}
ChatUsers == {7, 42}
Questions == {"q1", "q2"}
Answers == {"a1"}

---------------------------------------------------------------------------
(* Sequences *)
LastN(s, n) == IF Len(s) > n THEN SubSeq(s, Len(s) - n + 1, Len(s)) ELSE s
FirstN(s, n) == IF Len(s) > n THEN SubSeq(s, 1, n) ELSE s
IsPrefix(p, s) == Len(p) <= Len(s) /\ SubSeq(s, 1, Len(p)) = p

---------------------------------------------------------------------------
(* UserMemory : the dataclass and its methods *)
Entry(role, content) == [role |-> role, content |-> content]

UserMemory(user_id, username, recent_messages, long_term_notes, last_seen) ==
    [user_id |-> user_id, username |-> username,
     recent_messages |-> recent_messages,
     long_term_notes |-> long_term_notes, last_seen |-> last_seen]

NewUserMemory(user_id, username) == UserMemory(user_id, username, <<>>, <<>>, 0)

trim_recent_off_by_one(mem) ==
    LET max_entries == MAX_RECENT_MESSAGES * 2
    IN  IF Len(mem.recent_messages) > max_entries + 1
        THEN [mem EXCEPT !.recent_messages = LastN(@, max_entries + 1)]
        ELSE mem

trim_recent_keep_oldest(mem) ==
    LET max_entries == MAX_RECENT_MESSAGES * 2
    IN  IF Len(mem.recent_messages) > max_entries
        THEN [mem EXCEPT !.recent_messages = FirstN(@, max_entries)]
        ELSE mem

trim_recent(mem) ==
    LET max_entries == MAX_RECENT_MESSAGES * 2
    IN  IF Len(mem.recent_messages) > max_entries
        THEN [mem EXCEPT !.recent_messages =
                  SubSeq(@, Len(@) - max_entries + 1, Len(@))]
        ELSE mem

add_exchange_prepend(mem, user_msg, assistant_msg, t) ==
    trim_recent([mem EXCEPT
        !.recent_messages = <<Entry("user", user_msg), Entry("assistant", assistant_msg)>> \o @,
        !.last_seen = t])

add_exchange_drops_notes(mem, user_msg, assistant_msg, t) ==
    trim_recent(UserMemory(mem.user_id, mem.username,
        Append(Append(mem.recent_messages, Entry("user", user_msg)),
               Entry("assistant", assistant_msg)),
        <<>>, t))

add_exchange_user_only(mem, user_msg, assistant_msg, t) ==
    trim_recent([mem EXCEPT
        !.recent_messages = Append(@, Entry("user", user_msg)),
        !.last_seen = t])

add_exchange(mem, user_msg, assistant_msg, t) ==
    trim_recent([mem EXCEPT
        !.recent_messages = Append(Append(@, Entry("user", user_msg)),
                                   Entry("assistant", assistant_msg)),
        !.last_seen = t])

build_recent_for_api(mem) == mem.recent_messages

---------------------------------------------------------------------------
(* _store : an insertion-ordered dict *)
Keys(st) == {st[i].uid : i \in 1..Len(st)}
IndexOf(st, uid) == CHOOSE i \in 1..Len(st) : st[i].uid = uid
RefOf(st, uid) == st[IndexOf(st, uid)].ref
Put(st, uid, ref) ==
    IF uid \in Keys(st)
    THEN [st EXCEPT ![IndexOf(st, uid)].ref = ref]
    ELSE Append(st, [uid |-> uid, ref |-> ref])

get_user_memory_overwrites_name(h, st, user_id, username) ==
    LET created == user_id \notin Keys(st)
        h1 == IF created THEN Append(h, NewUserMemory(user_id, username)) ELSE h
        st1 == IF created THEN Put(st, user_id, Len(h1)) ELSE st
        mem == RefOf(st1, user_id)
    IN  [heap |-> [h1 EXCEPT ![mem].username = username], store |-> st1, mem |-> mem]

get_user_memory(h, st, user_id, username) ==
    LET created == user_id \notin Keys(st)
        h1 == IF created THEN Append(h, NewUserMemory(user_id, username)) ELSE h
        st1 == IF created THEN Put(st, user_id, Len(h1)) ELSE st
        mem == RefOf(st1, user_id)
        h2 == IF username # "" THEN [h1 EXCEPT ![mem].username = username] ELSE h1
    IN  [heap |-> h2, store |-> st1, mem |-> mem]

StoreView(h, st) == [u \in Keys(st) |-> h[RefOf(st, u)]]

---------------------------------------------------------------------------
(* Text: str.strip(), str.upper(), slicing *)
NL == 10
Whitespace == {9, 10, 11, 12, 13, 28, 29, 30, 31, 32}
NONE == <<78, 79, 78, 69>>

RECURSIVE LStrip(_)
LStrip(s) == IF s # <<>> /\ Head(s) \in Whitespace THEN LStrip(Tail(s)) ELSE s
RECURSIVE RStrip(_)
RStrip(s) ==
    IF s # <<>> /\ s[Len(s)] \in Whitespace
    THEN RStrip(SubSeq(s, 1, Len(s) - 1)) ELSE s
Strip(s) == RStrip(LStrip(s))

Upper(s) == [i \in 1..Len(s) |-> IF s[i] \in 97..122 THEN s[i] - 32 ELSE s[i]]

Slice(s, n) == IF Len(s) > n THEN SubSeq(s, 1, n) ELSE s

---------------------------------------------------------------------------
(* extract_and_update_memories, after the extraction call has returned *)
HasNewFacts_no_sentinel(new_facts) == new_facts # <<>>

HasNewFacts(new_facts) == new_facts # <<>> /\ Upper(new_facts) # NONE

MergeNotes_keep_tail(mem, new_facts) ==
    LET m == IF mem.long_term_notes # <<>>
             THEN mem.long_term_notes \o <<NL>> \o new_facts
             ELSE new_facts
    IN  [mem EXCEPT !.long_term_notes = LastN(m, MAX_MEMORY_CHARS)]

MergeNotes(mem, new_facts) ==
    LET m == IF mem.long_term_notes # <<>>
             THEN mem.long_term_notes \o <<NL>> \o new_facts
             ELSE new_facts
    IN  [mem EXCEPT !.long_term_notes = Slice(m, MAX_MEMORY_CHARS)]

---------------------------------------------------------------------------
(* Persistence.  The file is absent, holds a JSON document (an ordered     *)
(* sequence of [key, blob] members, a blob being a dict of fields), or     *)
(* holds text cut short by a failed write, which json.load rejects         *)
(* wherever the cut fell.                                                  *)
Digit(d) == 48 + d
RECURSIVE StrOfNat(_)
StrOfNat(n) == IF n < 10 THEN <<Digit(n)>> ELSE Append(StrOfNat(n \div 10), Digit(n % 10))
StrOfInt(n) == IF n < 0 THEN <<45>> \o StrOfNat(-n) ELSE StrOfNat(n)

asdict(mem) == mem

Snapshot(h, st) ==
    [i \in 1..Len(st) |-> [key |-> StrOfInt(st[i].uid), blob |-> asdict(h[st[i].ref])]]

JsonFile(doc) == [kind |-> "json", doc |-> doc]
Truncated == [kind |-> "truncated"]

SaveOutcomes == IF env.faults > 0 THEN {"ok", "open_failed", "write_failed"} ELSE {"ok"}

\* what a successful save_all of store st leaves: the file, and the Store it holds
Saved(h, st) == [file |-> JsonFile(Snapshot(h, st)), view |-> StoreView(h, st)]

\* save_all's effect on the file: open(.., "w") truncates, json.dump writes
save_all(h, st, d, outcome) ==
    CASE outcome = "ok" -> JsonFile(Snapshot(h, st))
      [] outcome = "open_failed" -> d
      [] outcome = "write_failed" -> Truncated

\* a call of save_all on store st, with its bookkeeping
SaveAll(h, st, outcome) ==
    /\ disk' = save_all(h, st, disk, outcome)
    /\ env' = IF outcome = "ok" THEN env ELSE [env EXCEPT !.faults = @ - 1]
    /\ saveCalls' = 1
    /\ lastSaved' = IF outcome = "ok" THEN Saved(h, st) ELSE lastSaved

NoSave == saveCalls' = 0 /\ UNCHANGED <<disk, env, lastSaved>>

---------------------------------------------------------------------------
(* JSON values as json.load returns them.  An object with known field      *)
(* names is a record (a dict); any other value carries its type in t.      *)
JsonNull == [t |-> "null"]
JsonNumber(n) == [t |-> "number", v |-> n]
JsonString(str) == [t |-> "string", v |-> str]
JsonArray(items) == [t |-> "array", v |-> items]
IsDict(v) == "t" \notin DOMAIN v

---------------------------------------------------------------------------
(* load_all *)
RECURSIVE NatOfDigits(_)
NatOfDigits(ds) ==
    IF ds = <<>> THEN 0 ELSE 10 * NatOfDigits(SubSeq(ds, 1, Len(ds) - 1)) + (ds[Len(ds)] - 48)

IsDigit(c) == c \in 48..57

\* int(uid_str): surrounding whitespace, an optional sign, digits that single
\* underscores may group; anything else raises ValueError
ParseInt(str) ==
    LET t == Strip(str)
        signed == t # <<>> /\ t[1] \in {43, 45}
        body == IF signed THEN Tail(t) ELSE t
        wellFormed ==
            /\ body # <<>>
            /\ \A i \in 1..Len(body) : IsDigit(body[i]) \/ body[i] = 95
            /\ IsDigit(body[1]) /\ IsDigit(body[Len(body)])
            /\ \A i \in 1..(Len(body) - 1) : ~(body[i] = 95 /\ body[i + 1] = 95)
        digits == SelectSeq(body, IsDigit)
    IN  IF wellFormed
        THEN [ok |-> TRUE,
              val |-> IF t[1] = 45 THEN 0 - NatOfDigits(digits) ELSE NatOfDigits(digits)]
        ELSE [ok |-> FALSE]

\* blob.get(field, default)
Get(blob, fld, default) == IF fld \in DOMAIN blob THEN blob[fld] ELSE default

FromBlob_notes_key(uid, blob) ==
    UserMemory(uid, Get(blob, "username", ""), Get(blob, "recent_messages", <<>>),
               Get(blob, "notes", <<>>), Get(blob, "last_seen", 0))

\* lines 108-114: the UserMemory load_all builds from one member of the file
FromBlob_blob_id(uid, blob) ==
    UserMemory(Get(blob, "user_id", uid), Get(blob, "username", ""),
               Get(blob, "recent_messages", <<>>),
               Get(blob, "long_term_notes", <<>>), Get(blob, "last_seen", 0))

FromBlob(uid, blob) ==
    UserMemory(uid, Get(blob, "username", ""), Get(blob, "recent_messages", <<>>),
               Get(blob, "long_term_notes", <<>>), Get(blob, "last_seen", 0))

\* lines 106-114: the loop; a key int() rejects, or a blob that has no get,
\* raises out of it, the members before it already stored
RECURSIVE LoadMembers(_, _, _)
LoadMembers(doc, h, st) ==
    IF doc = <<>> THEN [heap |-> h, store |-> st]
    ELSE LET p == ParseInt(doc[1].key)
         IN  IF ~p.ok \/ ~IsDict(doc[1].blob) THEN [heap |-> h, store |-> st]
             ELSE LET h1 == Append(h, FromBlob(p.val, doc[1].blob))
                  IN  LoadMembers(Tail(doc), h1, Put(st, p.val, Len(h1)))

load_all(h, st, d) ==
    IF d.kind = "json" THEN LoadMembers(d.doc, h, st) ELSE [heap |-> h, store |-> st]

---------------------------------------------------------------------------
(* prune_old_memories *)
Cutoff(t) == t - MEMORY_TTL_DAYS * SecondsPerDay

ToRemove_inclusive(h, st, t) ==
    {u \in Keys(st) : h[RefOf(st, u)].last_seen <= Cutoff(t) /\ h[RefOf(st, u)].last_seen > 0}

ToRemove(h, st, t) ==
    {u \in Keys(st) : h[RefOf(st, u)].last_seen < Cutoff(t) /\ h[RefOf(st, u)].last_seen > 0}

DelAll(st, uids) == LET Kept(e) == e.uid \notin uids IN SelectSeq(st, Kept)

---------------------------------------------------------------------------
(* UserMemory.build_context_block *)
MemoryLabel ==   \* "[Memory about this user]\n"
    <<91, 77, 101, 109, 111, 114, 121, 32, 97, 98, 111, 117, 116, 32, 116, 104,
      105, 115, 32, 117, 115, 101, 114, 93, 10>>

build_context_block_unlabeled(mem) == mem.long_term_notes

build_context_block(mem) ==
    IF mem.long_term_notes # <<>> THEN MemoryLabel \o mem.long_term_notes ELSE <<>>

---------------------------------------------------------------------------
(* export_user_memory: the JSON text of one Record, or None *)
None == [kind |-> "None"]

export_user_memory(h, st, user_id) ==
    IF user_id \in Keys(st)
    THEN [kind |-> "json", doc |-> asdict(h[RefOf(st, user_id)])]
    ELSE None

---------------------------------------------------------------------------
(* import_user_memory and import_all_memories.  raw_json is text json.loads *)
(* rejects (kind "invalid"), the text of a JSON value (kind "value"), or    *)
(* the text of a mapping from key strings to blobs (kind "json", the       *)
(* members in doc, as in the file).                                        *)
InvalidJson == [kind |-> "invalid"]
JsonValue(v) == [kind |-> "value", value |-> v]
UserIdText == <<117, 115, 101, 114, 95, 105, 100>>   \* "user_id"

IsSubstring(p, str) ==
    \E i \in 1..(Len(str) - Len(p) + 1) : SubSeq(str, i, i + Len(p) - 1) = p

\* line 160: "user_id" in blob; a number, a boolean or null raises TypeError
HasUserId(blob) ==
    IF IsDict(blob) THEN [ok |-> TRUE, val |-> "user_id" \in DOMAIN blob]
    ELSE IF blob.t = "array"
         THEN [ok |-> TRUE,
               val |-> \E i \in 1..Len(blob.v) :
                           /\ ~IsDict(blob.v[i])
                           /\ blob.v[i].t = "string"
                           /\ blob.v[i].v = UserIdText]
    ELSE IF blob.t = "string" THEN [ok |-> TRUE, val |-> IsSubstring(UserIdText, blob.v)]
    ELSE [ok |-> FALSE]

\* what a call leaves: whether it raised, what it returned (or the exception),
\* the objects, the Store, and whether it called save_all
Outcome(raised, result, h, st, saved) ==
    [raised |-> raised, result |-> result, heap |-> h, store |-> st, saved |-> saved]

import_user_memory(h, st, user_id, raw, t) ==
    IF raw.kind = "invalid" THEN Outcome(FALSE, "Invalid JSON", h, st, FALSE)
    ELSE LET blob == raw.value
             found == HasUserId(blob)
         IN  IF ~found.ok THEN Outcome(TRUE, "TypeError", h, st, FALSE)
             ELSE IF ~found.val THEN Outcome(FALSE, "Unrecognized format", h, st, FALSE)
             ELSE IF ~IsDict(blob) THEN Outcome(TRUE, "AttributeError", h, st, FALSE)
             ELSE LET h1 == Append(h, UserMemory(user_id, Get(blob, "username", ""),
                                                 Get(blob, "recent_messages", <<>>),
                                                 Get(blob, "long_term_notes", <<>>),
                                                 Get(blob, "last_seen", t)))
                  IN  Outcome(FALSE, "ok", h1, Put(st, user_id, Len(h1)), TRUE)

\* lines 189-206: the loop over the members, then save_all and the count
RECURSIVE ImportMembers(_, _, _, _)
ImportMembers(doc, h, st, count) ==
    IF doc = <<>> THEN Outcome(FALSE, [count |-> count, error |-> ""], h, st, TRUE)
    ELSE LET p == ParseInt(doc[1].key)
         IN  IF ~p.ok THEN ImportMembers(Tail(doc), h, st, count)
             ELSE IF ~IsDict(doc[1].blob) THEN Outcome(TRUE, "AttributeError", h, st, FALSE)
             ELSE LET h1 == Append(h, FromBlob(p.val, doc[1].blob))
                  IN  ImportMembers(Tail(doc), h1, Put(st, p.val, Len(h1)), count + 1)

import_all_memories(h, st, raw) ==
    CASE raw.kind = "invalid" ->
             Outcome(FALSE, [count |-> 0, error |-> "Invalid JSON"], h, st, FALSE)
      [] raw.kind = "value" ->
             Outcome(FALSE, [count |-> 0, error |-> "Expected a JSON object"], h, st, FALSE)
      [] raw.kind = "json" -> ImportMembers(raw.doc, h, st, 0)

---------------------------------------------------------------------------
(* Idle values of the parts of the state a specification does not use *)
NoFile == [kind |-> "absent"]
NoTurns == <<>>
NoTasks == <<>>
NoHistory == [u \in UserIds |-> <<>>]
NoOp == [op |-> "init"]
Quiet == [faults |-> 0, loaded |-> TRUE]
NeverSaved == [file |-> NoFile, view |-> <<>>]

---------------------------------------------------------------------------
(* SpecWindow: add_exchange called repeatedly on one Record that starts    *)
(* empty (the Record get_user_memory creates).                             *)
WindowUser == CHOOSE u \in UserIds : \A v \in UserIds : u <= v

InitWindow ==
    LET g == get_user_memory(<<>>, <<>>, WindowUser, "sam")
    IN  /\ heap = g.heap
        /\ store = g.store
        /\ disk = NoFile
        /\ now = StartTime
        /\ turns = NoTurns
        /\ tasks = NoTasks
        /\ env = Quiet
        /\ appended = NoHistory
        /\ chatOrder = <<>>
        /\ merged = NoHistory
        /\ saveCalls = 0
        /\ lastSaved = NeverSaved
        /\ lastOp = NoOp

AddExchangeCall(u, q, a, limit) ==
    /\ u \in Keys(store)
    /\ Len(appended[u]) < limit
    /\ heap' = [heap EXCEPT ![RefOf(store, u)] = add_exchange(@, q, a, now)]
    /\ appended' = [appended EXCEPT ![u] = Append(@, <<q, a, 0>>)]
    /\ lastOp' = [op |-> "add_exchange", user |-> u]
    /\ NoSave
    /\ UNCHANGED <<store, now, turns, tasks, chatOrder, merged>>

NextWindow == \E u \in UserIds, q \in Questions, a \in Answers : AddExchangeCall(u, q, a, MaxExchanges)

SpecWindow == InitWindow /\ [][NextWindow]_vars

---------------------------------------------------------------------------
(* Background extraction tasks.  A task is created by a chat turn and is   *)
(* suspended in the extraction call until that call returns or raises.     *)
Task(user_id, username, turn) ==
    [state |-> "running", user_id |-> user_id, username |-> username, turn |-> turn]

\* lines 263-270: what the task does to the objects and the Store
ApplyFacts(h, st, task, new_facts) ==
    IF HasNewFacts(new_facts)
    THEN LET g == get_user_memory(h, st, task.user_id, task.username)
         IN  [heap |-> [g.heap EXCEPT ![g.mem] = MergeNotes(@, new_facts)],
              store |-> g.store]
    ELSE [heap |-> h, store |-> st]

\* lines 261-274: the call returned content
ExtractReturn(k, content) ==
    /\ k \in 1..Len(tasks)
    /\ tasks[k].state = "running"
    /\ LET new_facts == Strip(content)
           t == tasks[k]
           r == ApplyFacts(heap, store, t, new_facts)
       IN  /\ heap' = r.heap
           /\ store' = r.store
           /\ IF HasNewFacts(new_facts)
              THEN /\ \E o \in SaveOutcomes : SaveAll(r.heap, r.store, o)
                   /\ merged' = [merged EXCEPT ![t.user_id] = Append(@, new_facts)]
              ELSE /\ UNCHANGED merged
                   /\ NoSave
           /\ lastOp' = [op |-> "extract_return", task |-> k, user |-> t.user_id,
                         new_facts |-> new_facts]
    /\ tasks' = [tasks EXCEPT ![k].state = "done"]
    /\ UNCHANGED <<now, turns, appended, chatOrder>>

ExtractFail_saves(k) ==
    /\ k \in 1..Len(tasks)
    /\ tasks[k].state = "running"
    /\ tasks' = [tasks EXCEPT ![k].state = "done"]
    /\ lastOp' = [op |-> "extract_fail", task |-> k, user |-> tasks[k].user_id]
    /\ \E o \in SaveOutcomes : SaveAll(heap, store, o)
    /\ UNCHANGED <<heap, store, now, turns, appended, chatOrder, merged>>

\* lines 275-276: the call raised
ExtractFail(k) ==
    /\ k \in 1..Len(tasks)
    /\ tasks[k].state = "running"
    /\ tasks' = [tasks EXCEPT ![k].state = "done"]
    /\ lastOp' = [op |-> "extract_fail", task |-> k, user |-> tasks[k].user_id]
    /\ NoSave
    /\ UNCHANGED <<heap, store, now, turns, appended, chatOrder, merged>>

---------------------------------------------------------------------------
(* Chat turns: on_command_error for a message that mentions the bot.  A    *)
(* turn suspends in ask_cat and again in ctx.send; what lies between two   *)
(* suspension points runs without interruption (one asyncio thread).       *)
NameOf(u) == IF u = WindowUser THEN "sam" ELSE "kit"
TurnQuestions == <<"t1", "t2", "t3", "t4", "t5", "t6">>
TurnAnswers == <<"r1", "r2", "r3", "r4", "r5", "r6">>

\* lines 314-324: get_user_memory, then the arguments of ask_cat are built
TurnStart(u, limit) ==
    /\ Len(turns) < limit
    /\ LET g == get_user_memory(heap, store, u, NameOf(u))
           k == Len(turns) + 1
       IN  /\ heap' = g.heap
           /\ store' = g.store
           /\ turns' = Append(turns,
                  [pc |-> "chat", user_id |-> u, username |-> NameOf(u),
                   question |-> TurnQuestions[k], answer |-> "", mem |-> g.mem,
                   user_memory_context |-> build_context_block(g.heap[g.mem]),
                   recent_messages |-> build_recent_for_api(g.heap[g.mem])])
    /\ lastOp' = [op |-> "turn_start", user |-> u]
    /\ NoSave
    /\ UNCHANGED <<now, tasks, appended, chatOrder, merged>>

ChatReturn_dispatch_early(k, answer) ==
    /\ k \in 1..Len(turns)
    /\ turns[k].pc = "chat"
    /\ turns' = [turns EXCEPT ![k].pc = "send", ![k].answer = answer]
    /\ chatOrder' = Append(chatOrder, k)
    /\ tasks' = Append(tasks, Task(turns[k].user_id, turns[k].username, k))
    /\ lastOp' = [op |-> "chat_return", user |-> turns[k].user_id]
    /\ NoSave
    /\ UNCHANGED <<heap, store, now, appended, merged>>

\* lines 319-326: ask_cat returns its answer, ctx.send is called
ChatReturn(k, answer) ==
    /\ k \in 1..Len(turns)
    /\ turns[k].pc = "chat"
    /\ turns' = [turns EXCEPT ![k].pc = "send", ![k].answer = answer]
    /\ chatOrder' = Append(chatOrder, k)
    /\ lastOp' = [op |-> "chat_return", user |-> turns[k].user_id]
    /\ NoSave
    /\ UNCHANGED <<heap, store, now, tasks, appended, merged>>

\* line 330: mem.add_exchange(question, answer), mem being the object the
\* turn got from get_user_memory before it suspended
ApplyExchange_stale_copy(h, turn, t) ==
    [h EXCEPT ![turn.mem] =
        add_exchange([@ EXCEPT !.recent_messages = turn.recent_messages],
                     turn.question, turn.answer, t)]

ApplyExchange(h, turn, t) ==
    [h EXCEPT ![turn.mem] = add_exchange(@, turn.question, turn.answer, t)]

\* lines 326-338: ctx.send returns; add_exchange, save_memories, create_task
SendReturn(k) ==
    /\ k \in 1..Len(turns)
    /\ turns[k].pc = "send"
    /\ LET t == turns[k]
           h2 == ApplyExchange(heap, t, now)
       IN  /\ heap' = h2
           /\ \E o \in SaveOutcomes : SaveAll(h2, store, o)
           /\ tasks' = Append(tasks, Task(t.user_id, t.username, k))
           /\ appended' = [appended EXCEPT ![t.user_id] =
                               Append(@, <<t.question, t.answer, k>>)]
           /\ lastOp' = [op |-> "send_return", user |-> t.user_id]
    /\ turns' = [turns EXCEPT ![k].pc = "done"]
    /\ UNCHANGED <<store, now, chatOrder, merged>>

\* line 326: ctx.send raises; the handler ends there
SendFail(k) ==
    /\ k \in 1..Len(turns)
    /\ turns[k].pc = "send"
    /\ turns' = [turns EXCEPT ![k].pc = "failed"]
    /\ lastOp' = [op |-> "send_fail", user |-> turns[k].user_id]
    /\ NoSave
    /\ UNCHANGED <<heap, store, now, tasks, appended, chatOrder, merged>>

---------------------------------------------------------------------------
(* SpecMerge: MaxMerges exchanges of one user have been stored and their   *)
(* extractions dispatched; the extraction calls return in any order.       *)
NameSam == <<45, 32, 78, 97, 109, 101, 58, 32, 83, 97, 109>>   \* "- Name: Sam"
LongFact(c) == [i \in 1..FactLen |-> IF i = 1 THEN 45 ELSE c]
MergeContents ==
    { <<>>, NONE, <<32, 110, 111, 110, 101, 10>>,               \* "", "NONE", " none\n"
      <<32>> \o NameSam \o <<10>>, LongFact(65), LongFact(66) }

RECURSIVE AfterExchanges(_, _, _)
AfterExchanges(mem, pairs, t) ==
    IF pairs = <<>> THEN mem
    ELSE AfterExchanges(add_exchange(mem, pairs[1][1], pairs[1][2], t), Tail(pairs), t)

InitMerge ==
    LET g == get_user_memory(<<>>, <<>>, WindowUser, "sam")
        pairs == [i \in 1..MaxMerges |-> <<"q1", "a1", 0>>]
        h == [g.heap EXCEPT ![g.mem] = AfterExchanges(@, pairs, StartTime)]
    IN  /\ heap = h
        /\ store = g.store
        /\ disk = JsonFile(Snapshot(h, g.store))
        /\ now = StartTime
        /\ turns = NoTurns
        /\ tasks = [i \in 1..MaxMerges |-> Task(WindowUser, "sam", 0)]
        /\ env = Quiet
        /\ appended = [NoHistory EXCEPT ![WindowUser] = pairs]
        /\ chatOrder = <<>>
        /\ merged = NoHistory
        /\ saveCalls = 1
        /\ lastSaved = Saved(h, g.store)
        /\ lastOp = NoOp

NextMerge ==
    \/ \E k \in 1..MaxMerges, c \in MergeContents : ExtractReturn(k, c)
    \/ \E k \in 1..MaxMerges : ExtractFail(k)

SpecMerge == InitMerge /\ [][NextMerge]_vars

---------------------------------------------------------------------------
(* SpecTurns: the running bot.  Up to MaxTurns chat turns arrive, of any   *)
(* users, and overlap freely; each dispatches its extraction.  The process *)
(* starts with no memory at all, or with one user who has already had      *)
(* MAX_RECENT_MESSAGES - 1 exchanges, so that the window cap is reached.   *)
TurnContents == {NONE, NameSam}

InitTurns ==
    \E n \in {0, MAX_RECENT_MESSAGES - 1} :
        LET g == get_user_memory(<<>>, <<>>, WindowUser, NameOf(WindowUser))
            pairs == [i \in 1..n |-> <<"q1", "a1", 0>>]
            h == [g.heap EXCEPT ![g.mem] = AfterExchanges(@, pairs, StartTime)]
        IN  /\ heap = IF n = 0 THEN <<>> ELSE h
            /\ store = IF n = 0 THEN <<>> ELSE g.store
            /\ disk = IF n = 0 THEN NoFile ELSE JsonFile(Snapshot(h, g.store))
            /\ now = StartTime
            /\ turns = NoTurns
            /\ tasks = NoTasks
            /\ env = Quiet
            /\ appended = [NoHistory EXCEPT ![WindowUser] = pairs]
            /\ chatOrder = <<>>
            /\ merged = NoHistory
            /\ saveCalls = IF n = 0 THEN 0 ELSE 1
            /\ lastSaved = IF n = 0 THEN NeverSaved ELSE Saved(h, g.store)
            /\ lastOp = NoOp

NextTurns ==
    \/ \E u \in ChatUsers : TurnStart(u, MaxTurns)
    \/ \E k \in 1..Len(turns) : ChatReturn(k, TurnAnswers[k])
    \/ \E k \in 1..Len(turns) : SendReturn(k)
    \/ \E k \in 1..Len(turns) : SendFail(k)
    \/ \E k \in 1..Len(tasks), c \in TurnContents : ExtractReturn(k, c)
    \/ \E k \in 1..Len(tasks) : ExtractFail(k)

SpecTurns == InitTurns /\ [][NextTurns]_vars

---------------------------------------------------------------------------
(* The functions of memory.py called one at a time.                        *)
(* SpecPrune: get_user_memory, add_exchange with its save_all, and         *)
(* prune_old_memories in any order, with a clock that passes the instants  *)
(* around the TTL.                                                         *)
(* SpecPersist: get_user_memory, add_exchange with its save_all, the       *)
(* extraction with its save_all, and load_all, in any order, by a process  *)
(* that may be restarted, over a file system that may fail a write.        *)
TTL == MEMORY_TTL_DAYS * SecondsPerDay
Instants == {StartTime, StartTime + 1, StartTime + 2, StartTime + TTL + 1}

InitStore(budget) ==
    /\ heap = <<>>
    /\ store = <<>>
    /\ disk = NoFile
    /\ now = StartTime
    /\ turns = NoTurns
    /\ tasks = NoTasks
    /\ env = budget
    /\ appended = NoHistory
    /\ chatOrder = <<>>
    /\ merged = NoHistory
    /\ saveCalls = 0
    /\ lastSaved = NeverSaved
    /\ lastOp = NoOp

\* get_user_memory(u, name)
GetUserCall(u) ==
    /\ u \notin Keys(store)
    /\ LET g == get_user_memory(heap, store, u, NameOf(u))
       IN  heap' = g.heap /\ store' = g.store
    /\ lastOp' = [op |-> "get_user_memory", user |-> u]
    /\ NoSave
    /\ UNCHANGED <<now, turns, tasks, appended, chatOrder, merged>>

\* extract_and_update_memories(u, name, ...) run to its end, the extraction
\* call returning content
ExtractCall(u, content) ==
    /\ Len(merged[u]) < MaxTouches
    /\ LET new_facts == Strip(content)
           r == ApplyFacts(heap, store, [user_id |-> u, username |-> NameOf(u)], new_facts)
       IN  /\ HasNewFacts(new_facts)
           /\ heap' = r.heap
           /\ store' = r.store
           /\ \E o \in SaveOutcomes : SaveAll(r.heap, r.store, o)
           /\ merged' = [merged EXCEPT ![u] = Append(@, new_facts)]
           /\ lastOp' = [op |-> "extract", user |-> u]
    /\ UNCHANGED <<now, turns, tasks, appended, chatOrder>>

ExchangeCall_rollback(u, q, a, limit) ==
    /\ u \in Keys(store)
    /\ Len(appended[u]) < limit
    /\ LET h2 == [heap EXCEPT ![RefOf(store, u)] = add_exchange(@, q, a, now)]
       IN  \E o \in SaveOutcomes :
               /\ heap' = IF o = "ok" THEN h2 ELSE heap
               /\ SaveAll(h2, store, o)
               /\ lastOp' = [op |-> "exchange", user |-> u, outcome |-> o]
    /\ appended' = [appended EXCEPT ![u] = Append(@, <<q, a, 0>>)]
    /\ UNCHANGED <<store, now, turns, tasks, chatOrder, merged>>

ExchangeCall_all_records(u, q, a, limit) ==
    /\ u \in Keys(store)
    /\ Len(appended[u]) < limit
    /\ LET h2 == [i \in DOMAIN heap |-> add_exchange(heap[i], q, a, now)]
       IN  /\ heap' = h2
           /\ \E o \in SaveOutcomes :
                  /\ SaveAll(h2, store, o)
                  /\ lastOp' = [op |-> "exchange", user |-> u, outcome |-> o]
    /\ appended' = [appended EXCEPT ![u] = Append(@, <<q, a, 0>>)]
    /\ UNCHANGED <<store, now, turns, tasks, chatOrder, merged>>

\* mem.add_exchange(q, a) followed by save_all(), as bot.py calls them
ExchangeCall(u, q, a, limit) ==
    /\ u \in Keys(store)
    /\ Len(appended[u]) < limit
    /\ LET h2 == [heap EXCEPT ![RefOf(store, u)] = add_exchange(@, q, a, now)]
       IN  /\ heap' = h2
           /\ \E o \in SaveOutcomes :
                  /\ SaveAll(h2, store, o)
                  /\ lastOp' = [op |-> "exchange", user |-> u, outcome |-> o]
    /\ appended' = [appended EXCEPT ![u] = Append(@, <<q, a, 0>>)]
    /\ UNCHANGED <<store, now, turns, tasks, chatOrder, merged>>

\* load_all(), which a process calls once
LoadAllCall ==
    /\ ~env.loaded
    /\ LET r == load_all(heap, store, disk)
       IN  heap' = r.heap /\ store' = r.store
    /\ env' = [env EXCEPT !.loaded = TRUE]
    /\ lastOp' = [op |-> "load_all", intoEmpty |-> (store = <<>>)]
    /\ saveCalls' = 0
    /\ UNCHANGED <<disk, now, turns, tasks, appended, chatOrder, merged, lastSaved>>

PruneCall_no_save ==
    /\ LET to_remove == ToRemove(heap, store, now)
       IN  /\ store' = DelAll(store, to_remove)
           /\ NoSave
           /\ lastOp' = [op |-> "prune",
                         removed |-> {[uid |-> u, last_seen |-> heap[RefOf(store, u)].last_seen]
                                          : u \in to_remove}]
    /\ UNCHANGED <<heap, now, turns, tasks, appended, chatOrder, merged>>

\* prune_old_memories()
PruneCall ==
    /\ LET to_remove == ToRemove(heap, store, now)
           st2 == DelAll(store, to_remove)
       IN  /\ store' = st2
           /\ IF to_remove # {}
              THEN \E o \in SaveOutcomes : SaveAll(heap, st2, o)
              ELSE NoSave
           /\ lastOp' = [op |-> "prune",
                         removed |-> {[uid |-> u, last_seen |-> heap[RefOf(store, u)].last_seen]
                                          : u \in to_remove}]
    /\ UNCHANGED <<heap, now, turns, tasks, appended, chatOrder, merged>>

\* the process ends (or is killed) and a new one starts: _store = {}
ProcessStart ==
    /\ env.faults > 0
    /\ env' = [faults |-> env.faults - 1, loaded |-> FALSE]
    /\ heap' = <<>>
    /\ store' = <<>>
    /\ lastOp' = [op |-> "process_start"]
    /\ saveCalls' = 0
    /\ UNCHANGED <<disk, now, turns, tasks, appended, chatOrder, merged, lastSaved>>

\* time passes
Tick(t) ==
    /\ t > now
    /\ now' = t
    /\ lastOp' = [op |-> "tick"]
    /\ NoSave
    /\ UNCHANGED <<heap, store, turns, tasks, appended, chatOrder, merged>>

InitPrune == InitStore(Quiet)

NextPrune ==
    \/ \E u \in UserIds : GetUserCall(u)
    \/ \E u \in UserIds : ExchangeCall(u, "q1", "a1", MaxTouches)
    \/ PruneCall
    \/ \E t \in Instants : Tick(t)

SpecPrune == InitPrune /\ [][NextPrune]_vars

InitPersist == InitStore([faults |-> MaxFaults, loaded |-> FALSE])

NextPersist ==
    \/ \E u \in ChatUsers : GetUserCall(u)
    \/ \E u \in ChatUsers : ExchangeCall(u, "q1", "a1", MaxTouches)
    \/ \E u \in ChatUsers : ExtractCall(u, NameSam)
    \/ LoadAllCall
    \/ ProcessStart

SpecPersist == InitPersist /\ [][NextPersist]_vars

---------------------------------------------------------------------------
(* SpecRecords: the operations on Records called one at a time, in any     *)
(* order and with any display name: get_user_memory, the exchange and the  *)
(* extraction with their saves, the clear of the memory command and        *)
(* export_user_memory.                                                     *)
(* SpecFaults: the operations that change one user's Record and save the   *)
(* Store, and the sweep with a clock that passes the TTL, over a file      *)
(* system that may fail a write.                                           *)
DisplayNames == {"", "tom"}

\* get_user_memory(u, username), for a known or an unknown user
GetOrCreateCall(u, username) ==
    /\ LET g == get_user_memory(heap, store, u, username)
       IN  heap' = g.heap /\ store' = g.store
    /\ lastOp' = [op |-> "get_or_create", user |-> u, username |-> username]
    /\ NoSave
    /\ UNCHANGED <<now, turns, tasks, appended, chatOrder, merged>>

ClearCall_resets_last_seen(u, username) ==
    /\ username # ""
    /\ LET g == get_user_memory(heap, store, u, username)
           h2 == [g.heap EXCEPT ![g.mem].recent_messages = <<>>,
                                ![g.mem].long_term_notes = <<>>,
                                ![g.mem].last_seen = 0]
       IN  /\ heap' = h2
           /\ store' = g.store
           /\ \E o \in SaveOutcomes : SaveAll(h2, g.store, o)
    /\ lastOp' = [op |-> "clear", user |-> u]
    /\ UNCHANGED <<now, turns, tasks, appended, chatOrder, merged>>

\* cat_memory with action "clear": get_user_memory, the two resets, save
ClearCall(u, username) ==
    /\ username # ""
    /\ LET g == get_user_memory(heap, store, u, username)
           h2 == [g.heap EXCEPT ![g.mem].recent_messages = <<>>,
                                ![g.mem].long_term_notes = <<>>]
       IN  /\ heap' = h2
           /\ store' = g.store
           /\ \E o \in SaveOutcomes : SaveAll(h2, g.store, o)
    /\ lastOp' = [op |-> "clear", user |-> u]
    /\ UNCHANGED <<now, turns, tasks, appended, chatOrder, merged>>

ExportCall_get_or_create(u) ==
    /\ LET g == get_user_memory(heap, store, u, "")
       IN  /\ heap' = g.heap
           /\ store' = g.store
           /\ lastOp' = [op |-> "export", user |-> u,
                         result |-> export_user_memory(g.heap, g.store, u)]
    /\ NoSave
    /\ UNCHANGED <<now, turns, tasks, appended, chatOrder, merged>>

\* export_user_memory(u)
ExportCall(u) ==
    /\ lastOp' = [op |-> "export", user |-> u, result |-> export_user_memory(heap, store, u)]
    /\ NoSave
    /\ UNCHANGED <<heap, store, now, turns, tasks, appended, chatOrder, merged>>

InitRecords == InitStore(Quiet)

NextRecords ==
    \/ \E u \in ChatUsers, n \in DisplayNames : GetOrCreateCall(u, n)
    \/ \E u \in ChatUsers : ExchangeCall(u, "q1", "a1", MaxTouches)
    \/ \E u \in ChatUsers : ExtractCall(u, NameSam)
    \/ \E u \in ChatUsers, n \in DisplayNames : ClearCall(u, n)
    \/ \E u \in ChatUsers : ExportCall(u)

SpecRecords == InitRecords /\ [][NextRecords]_vars

InitFaults == InitStore([faults |-> MaxFaults, loaded |-> TRUE])

NextFaults ==
    \/ GetUserCall(WindowUser)
    \/ ExchangeCall(WindowUser, "q1", "a1", MaxTouches)
    \/ ExtractCall(WindowUser, NameSam)
    \/ ClearCall(WindowUser, NameOf(WindowUser))
    \/ PruneCall
    \/ Tick(StartTime + TTL + 1)

SpecFaults == InitFaults /\ [][NextFaults]_vars

---------------------------------------------------------------------------
(* SpecImport: a process starts over a file that may be absent, cut short  *)
(* or edited by hand, calls load_all, and is given payloads to import,     *)
(* well-formed and not.                                                    *)
MaxObjects == 2     \* UserMemory objects a run of SpecImport allocates before
                    \* it stops importing

AbcText == <<97, 98, 99>>                                   \* "abc"
Member(key, blob) == [key |-> key, blob |-> blob]
RecSam ==
    UserMemory(7, "sam", <<Entry("user", "q1"), Entry("assistant", "a1")>>, NameSam, StartTime)
RecKit == UserMemory(42, "kit", <<>>, <<>>, 0)

\* a well-formed Record of 11 exchanges and 1001 characters of notes
BigRecent ==
    [i \in 1..(2 * MAX_RECENT_MESSAGES + 2) |->
        IF i % 2 = 1 THEN Entry("user", "q1") ELSE Entry("assistant", "a1")]
BigNotes == [i \in 1..(MAX_MEMORY_CHARS + 1) |-> 120]
RecBig == UserMemory(7, "sam", BigRecent, BigNotes, StartTime)
\* a mapping whose second entry carries another user_id than its key
BigFile ==
    JsonFile(<<Member(StrOfInt(7), asdict(RecBig)), Member(StrOfInt(42), asdict(RecSam))>>)

Files ==
    << NoFile,
       Truncated,
       JsonFile(<<Member(StrOfInt(7), asdict(RecSam))>>),
       JsonFile(<<Member(StrOfInt(7), asdict(RecSam)), Member(AbcText, asdict(RecKit)),
                  Member(StrOfInt(42), asdict(RecKit))>>),
       JsonFile(<<Member(StrOfInt(7), asdict(RecSam)), Member(StrOfInt(42), JsonNull)>>),
       BigFile >>

UserPayloads ==
    << InvalidJson,
       JsonValue(JsonNull),
       JsonValue(JsonNumber(5)),
       JsonValue(JsonArray(<<JsonNumber(1)>>)),
       JsonValue(JsonArray(<<JsonString(UserIdText)>>)),
       JsonValue(JsonString(<<120>> \o UserIdText)),
       JsonValue([username |-> "sam"]),
       JsonValue([user_id |-> 7]),
       JsonValue(asdict(RecSam)),
       JsonValue(asdict(RecBig)) >>

AllPayloads ==
    << InvalidJson,
       JsonValue(JsonArray(<<>>)),
       JsonFile(<<Member(AbcText, asdict(RecKit))>>),
       JsonFile(<<Member(StrOfInt(7), asdict(RecSam)), Member(AbcText, asdict(RecKit)),
                  Member(StrOfInt(42), asdict(RecKit))>>),
       JsonFile(<<Member(StrOfInt(7), asdict(RecSam)), Member(StrOfInt(42), JsonNull)>>),
       BigFile >>

InitImport ==
    /\ heap = <<>>
    /\ store = <<>>
    /\ \E i \in DOMAIN Files : disk = Files[i]
    /\ now = StartTime
    /\ turns = NoTurns
    /\ tasks = NoTasks
    /\ env = [faults |-> 0, loaded |-> FALSE]
    /\ appended = NoHistory
    /\ chatOrder = <<>>
    /\ merged = NoHistory
    /\ saveCalls = 0
    /\ lastSaved = NeverSaved
    /\ lastOp = NoOp

\* import_user_memory(u, raw_json), raw_json being UserPayloads[i]
ImportUserCall(u, i) ==
    /\ Len(heap) < MaxObjects
    /\ LET r == import_user_memory(heap, store, u, UserPayloads[i], now)
       IN  /\ heap' = r.heap
           /\ store' = r.store
           /\ IF r.saved THEN SaveAll(r.heap, r.store, "ok") ELSE NoSave
           /\ lastOp' = [op |-> "import_user", user |-> u, input |-> i,
                         raised |-> r.raised, result |-> r.result]
    /\ UNCHANGED <<now, turns, tasks, appended, chatOrder, merged>>

\* import_all_memories(raw_json), raw_json being AllPayloads[i]
ImportAllCall(i) ==
    /\ Len(heap) < MaxObjects
    /\ LET r == import_all_memories(heap, store, AllPayloads[i])
       IN  /\ heap' = r.heap
           /\ store' = r.store
           /\ IF r.saved THEN SaveAll(r.heap, r.store, "ok") ELSE NoSave
           /\ lastOp' = [op |-> "import_all", input |-> i,
                         raised |-> r.raised, result |-> r.result]
    /\ UNCHANGED <<now, turns, tasks, appended, chatOrder, merged>>

NextImport ==
    \/ LoadAllCall
    \/ \E u \in ChatUsers, i \in DOMAIN UserPayloads : ImportUserCall(u, i)
    \/ \E i \in DOMAIN AllPayloads : ImportAllCall(i)
    \/ \E u \in ChatUsers : ExportCall(u)
    \/ \E u \in ChatUsers : Len(heap) < MaxObjects /\ GetUserCall(u)
    \/ PruneCall

SpecImport == InitImport /\ [][NextImport]_vars

---------------------------------------------------------------------------
(* SpecClear: the chat turns of one user, whose chat call may fail, their  *)
(* extractions, and the clear of the memory command, interleaved freely.   *)
(* The Store starts empty.                                                 *)
ChatErrorText == "Couldn't get an answer"   \* what ask_cat returns when its call raised

InitClear == InitStore(Quiet)

NextClear ==
    \/ TurnStart(WindowUser, MaxTurns)
    \/ \E k \in 1..Len(turns) : ChatReturn(k, TurnAnswers[k])
    \/ \E k \in 1..Len(turns) : ChatReturn(k, ChatErrorText)
    \/ \E k \in 1..Len(turns) : SendReturn(k)
    \/ \E k \in 1..Len(turns) : SendFail(k)
    \/ \E k \in 1..Len(tasks), c \in TurnContents : ExtractReturn(k, c)
    \/ \E k \in 1..Len(tasks) : ExtractFail(k)
    \/ ClearCall(WindowUser, NameOf(WindowUser))

SpecClear == InitClear /\ [][NextClear]_vars

---------------------------------------------------------------------------
(* SpecReload: a process starts over the file an earlier process left, in  *)
(* which one user has an exchange, recent or older than the TTL.  The chat *)
(* turns of that user and on_ready (load_all, then prune_old_memories)     *)
(* interleave freely: on_ready need not be the first event to run.         *)
OldTime == 1        \* a last_seen older than the TTL at StartTime

FileOf(last_seen) ==
    JsonFile(<<Member(StrOfInt(WindowUser),
                      asdict(UserMemory(WindowUser, NameOf(WindowUser),
                                        <<Entry("user", "q1"), Entry("assistant", "a1")>>,
                                        NameSam, last_seen)))>>)

InitReload ==
    /\ heap = <<>>
    /\ store = <<>>
    /\ \E t \in {OldTime, StartTime} : disk = FileOf(t)
    /\ now = StartTime
    /\ turns = NoTurns
    /\ tasks = NoTasks
    /\ env = [faults |-> 0, loaded |-> FALSE]
    /\ appended = NoHistory
    /\ chatOrder = <<>>
    /\ merged = NoHistory
    /\ saveCalls = 0
    /\ lastSaved = NeverSaved
    /\ lastOp = NoOp

\* on_ready: load_memories(), then prune_old_memories()
OnReady ==
    /\ ~env.loaded
    /\ LET r == load_all(heap, store, disk)
           to_remove == ToRemove(r.heap, r.store, now)
           st2 == DelAll(r.store, to_remove)
       IN  /\ heap' = r.heap
           /\ store' = st2
           /\ IF to_remove # {}
              THEN \E o \in SaveOutcomes :
                       /\ disk' = save_all(r.heap, st2, disk, o)
                       /\ env' = [faults |-> IF o = "ok" THEN env.faults ELSE env.faults - 1,
                                  loaded |-> TRUE]
                       /\ saveCalls' = 1
                       /\ lastSaved' = IF o = "ok" THEN Saved(r.heap, st2) ELSE lastSaved
              ELSE /\ env' = [env EXCEPT !.loaded = TRUE]
                   /\ saveCalls' = 0
                   /\ UNCHANGED <<disk, lastSaved>>
           /\ lastOp' = [op |-> "on_ready", removed |-> to_remove]
    /\ UNCHANGED <<now, turns, tasks, appended, chatOrder, merged>>

NextReload ==
    \/ TurnStart(WindowUser, MaxTurns)
    \/ \E k \in 1..Len(turns) : ChatReturn(k, TurnAnswers[k])
    \/ \E k \in 1..Len(turns) : SendReturn(k)
    \/ \E k \in 1..Len(turns) : SendFail(k)
    \/ \E k \in 1..Len(tasks), c \in TurnContents : ExtractReturn(k, c)
    \/ \E k \in 1..Len(tasks) : ExtractFail(k)
    \/ OnReady

SpecReload == InitReload /\ [][NextReload]_vars

---------------------------------------------------------------------------
(* The entries a sequence of (question, answer) pairs stands for *)
RECURSIVE EntriesOf(_)
EntriesOf(pairs) ==
    IF pairs = <<>> THEN <<>>
    ELSE <<Entry("user", pairs[1][1]), Entry("assistant", pairs[1][2])>>
         \o EntriesOf(Tail(pairs))

Min(a, b) == IF a < b THEN a ELSE b

\* C1: after every add_exchange call on a Record that starts empty,
\* len(recent_messages) is at most 2 x MAX_RECENT_MESSAGES and is even.
C1_WindowBoundedEven ==
    \A i \in 1..Len(heap) :
        /\ Len(heap[i].recent_messages) <= 2 * MAX_RECENT_MESSAGES
        /\ Len(heap[i].recent_messages) % 2 = 0

\* C1 witness: an add_exchange call that had to trim (more than 10 calls made)
C1_Witness ==
    /\ lastOp.op = "add_exchange"
    /\ Len(appended[WindowUser]) > MAX_RECENT_MESSAGES
    /\ Len(heap[RefOf(store, WindowUser)].recent_messages) = 2 * MAX_RECENT_MESSAGES

RECURSIVE JoinNL(_)
JoinNL(facts) ==
    IF facts = <<>> THEN <<>>
    ELSE IF Len(facts) = 1 THEN facts[1]
    ELSE facts[1] \o <<NL>> \o JoinNL(Tail(facts))

\* C3: after any sequence of note merges, len(long_term_notes) <= MAX_MEMORY_CHARS
\* and long_term_notes is a prefix of all merged facts joined by newlines.
C3_NotesCappedPrefix ==
    \A u \in Keys(store) :
        LET notes == heap[RefOf(store, u)].long_term_notes
        IN  /\ Len(notes) <= MAX_MEMORY_CHARS
            /\ IsPrefix(notes, JoinNL(merged[u]))

\* C3 witness: a merge whose result was cut at the cap
C3_Witness ==
    /\ lastOp.op = "extract_return"
    /\ HasNewFacts(lastOp.new_facts)
    /\ Len(heap[RefOf(store, WindowUser)].long_term_notes) = MAX_MEMORY_CHARS
    /\ Len(JoinNL(merged[WindowUser])) > MAX_MEMORY_CHARS

IsNoFacts(new_facts) == new_facts = <<>> \/ new_facts = NONE

\* C4: an extraction result that is empty or the "NONE" sentinel changes no
\* Record, creates none and triggers no save.
C4_NoFactsIsNoOp ==
    [][ (lastOp'.op = "extract_return" /\ IsNoFacts(lastOp'.new_facts))
        => (heap' = heap /\ store' = store /\ disk' = disk /\ saveCalls' = 0) ]_vars

\* C4 witness: a "NONE" result arrived for a user whose notes are not empty
C4_Witness ==
    /\ lastOp.op = "extract_return"
    /\ lastOp.new_facts = NONE
    /\ heap[RefOf(store, lastOp.user)].long_term_notes # <<>>

---------------------------------------------------------------------------
(* Eviction *)
LastSeenOf(h, st, u) == h[RefOf(st, u)].last_seen

\* the Records the sweep is to evict at instant t
Expired(h, st, t) ==
    {u \in Keys(st) : LastSeenOf(h, st, u) > 0 /\ LastSeenOf(h, st, u) < t - TTL}

\* C5: prune_old_memories removes from the Store exactly the Records with
\* last_seen > 0 and last_seen < now - TTL, and leaves every other Record
\* present and unchanged.
C5_PruneRemovesExactlyExpired ==
    [][ lastOp'.op = "prune"
        => /\ Keys(store') = Keys(store) \ Expired(heap, store, now)
           /\ \A u \in Keys(store') : heap'[RefOf(store', u)] = heap[RefOf(store, u)] ]_vars

\* C5 witness: a sweep evicted a Record one second older than the TTL and
\* kept one a second younger and one whose last_seen was never set
C5_Witness ==
    /\ lastOp.op = "prune"
    /\ \E r \in lastOp.removed : r.last_seen = now - TTL - 1 /\ r.uid \notin Keys(store)
    /\ \E u \in Keys(store) : LastSeenOf(heap, store, u) = now - TTL + 1
    /\ \E u \in Keys(store) : LastSeenOf(heap, store, u) = 0

---------------------------------------------------------------------------
(* Persistence *)

\* the file is the one the last successful save_all wrote, and load_all has
\* just read it into an empty Store
LoadedLastSave ==
    /\ lastOp.op = "load_all"
    /\ lastOp.intoEmpty
    /\ disk.kind = "json"
    /\ disk = lastSaved.file
    /\ DOMAIN lastSaved.view # {}

\* C6: a successful save_all of a non-empty Store followed by load_all into
\* an empty Store reproduces the same set of user ids and, for each, the
\* same username, recent_messages, long_term_notes and last_seen.
C6_LoadReproducesSave ==
    LoadedLastSave => StoreView(heap, store) = lastSaved.view

\* C6 witness: a Store of two users, one with exchanges and notes, was saved
\* and loaded back
C6_Witness ==
    /\ LoadedLastSave
    /\ Cardinality(DOMAIN lastSaved.view) >= 2
    /\ \E u \in DOMAIN lastSaved.view :
           /\ lastSaved.view[u].recent_messages # <<>>
           /\ lastSaved.view[u].long_term_notes # <<>>
           /\ lastSaved.view[u].last_seen > 0

\* C7: the backing file always holds the complete snapshot of the Store as of
\* the last successful save; a save that fails part-way leaves the previous
\* snapshot intact.
C7_FileHoldsLastSave == lastSaved # NeverSaved => disk = lastSaved.file

\* C7: a save_all that failed while writing, after an earlier one succeeded
C7_Witness ==
    /\ saveCalls = 1
    /\ lastSaved # NeverSaved
    /\ disk = Truncated

---------------------------------------------------------------------------
(* Chat turns of one user *)
RecentOf(u) ==heap[RefOf(store, u)].recent_messages
NotesOf(u) == heap[RefOf(store, u)].long_term_notes

\* the exchange of turn k lies in recent as two adjacent entries
HasPair(recent, k) ==
    \E p \in 1..(Len(recent) - 1) :
        /\ recent[p] = Entry("user", turns[k].question)
        /\ recent[p + 1] = Entry("assistant", turns[k].answer)

\* where the question of turn k lies in recent; 0 when it is not there
PairPos(recent, k) ==
    LET At(p) == recent[p] = Entry("user", turns[k].question)
    IN  IF \E p \in 1..Len(recent) : At(p) THEN CHOOSE p \in 1..Len(recent) : At(p) ELSE 0

SameUserDone(i, j) ==
    /\ i # j
    /\ turns[i].user_id = turns[j].user_id
    /\ turns[i].pc = "done" /\ turns[j].pc = "done"

\* the turns were suspended together: neither saw the other's exchange when it
\* read the Record
Overlapped(i, j) ==
    /\ \A p \in 1..Len(turns[i].recent_messages) :
           turns[i].recent_messages[p].content # turns[j].question
    /\ \A p \in 1..Len(turns[j].recent_messages) :
           turns[j].recent_messages[p].content # turns[i].question

\* C8: once two turns of one user have completed, both their pairs are in that
\* user's recent_messages in the Store, each pair adjacent, and the window
\* holds exactly the last min(n, 10) pairs appended (nothing trimmed twice).
C8_NoLostExchange ==
    \A i, j \in 1..Len(turns) :
        SameUserDone(i, j) =>
            LET u == turns[i].user_id
            IN  /\ u \in Keys(store)
                /\ HasPair(RecentOf(u), i)
                /\ HasPair(RecentOf(u), j)
                /\ RecentOf(u) = EntriesOf(LastN(appended[u], MAX_RECENT_MESSAGES))

\* C8 witness: two overlapping turns of one user completed, at the window cap
C8_Witness ==
    \E i, j \in 1..Len(turns) :
        /\ SameUserDone(i, j)
        /\ Overlapped(i, j)
        /\ Len(RecentOf(turns[i].user_id)) = 2 * MAX_RECENT_MESSAGES

\* the Record of user u after a step that leaves objects h and store st
Fields(h, st, u) ==
    [recent_messages |-> h[RefOf(st, u)].recent_messages,
     long_term_notes |-> h[RefOf(st, u)].long_term_notes]

\* an extraction of an earlier turn is running while turn j is about to append
Racing(k, j) ==
    /\ tasks[k].state = "running"
    /\ turns[j].pc = "send"
    /\ tasks[k].user_id = turns[j].user_id
    /\ tasks[k].turn # j

\* C9: when an extraction is still running while a later turn of the same user
\* appends its exchange, merging the facts and appending the exchange give
\* the same recent_messages and long_term_notes in either order, and each
\* step's effect survives the other.
C9_MergeCommutesWithAppend ==
    \A k \in 1..Len(tasks), j \in 1..Len(turns), c \in TurnContents :
        Racing(k, j) =>
            LET u == turns[j].user_id
                f == Strip(c)
                m == ApplyFacts(heap, store, tasks[k], f)
                mThenA == [heap |-> ApplyExchange(m.heap, turns[j], now), store |-> m.store]
                a == [heap |-> ApplyExchange(heap, turns[j], now), store |-> store]
                aThenM == ApplyFacts(a.heap, a.store, tasks[k], f)
            IN  /\ Fields(mThenA.heap, mThenA.store, u) = Fields(aThenM.heap, aThenM.store, u)
                /\ Fields(mThenA.heap, mThenA.store, u).long_term_notes =
                       Fields(m.heap, m.store, u).long_term_notes
                /\ Fields(aThenM.heap, aThenM.store, u).recent_messages =
                       Fields(a.heap, a.store, u).recent_messages

\* C9 witness: the extraction of turn N is running and turn N+1 of the same
\* user, which started before turn N appended, is about to append
C9_Witness ==
    \E k \in 1..Len(tasks), j \in 1..Len(turns) :
        /\ Racing(k, j)
        /\ tasks[k].turn < j
        /\ Overlapped(tasks[k].turn, j)
        /\ HasPair(RecentOf(turns[j].user_id), tasks[k].turn)

\* position of turn k among the ask_cat returns
ChatPos(k) == CHOOSE p \in 1..Len(chatOrder) : chatOrder[p] = k

\* C10 as claimed: for one user, exchanges are appended in the order in which
\* their ask_cat calls returned.
C10_AppendedInChatOrder ==
    \A i, j \in 1..Len(turns) :
        (SameUserDone(i, j) /\ ChatPos(i) < ChatPos(j)) =>
            PairPos(RecentOf(turns[i].user_id), i) < PairPos(RecentOf(turns[i].user_id), j)

\* position of turn k among the add_exchange calls of its user, which a turn
\* makes when its ctx.send returns
SendPos(k) ==
    CHOOSE p \in 1..Len(appended[turns[k].user_id]) : appended[turns[k].user_id][p][3] = k

\* C10 as amended: for one user, exchanges are appended in the order in which
\* their replies' ctx.send calls returned.
C10_AppendedInSendOrder ==
    \A i, j \in 1..Len(turns) :
        (SameUserDone(i, j) /\ SendPos(i) < SendPos(j)) =>
            PairPos(RecentOf(turns[i].user_id), i) < PairPos(RecentOf(turns[i].user_id), j)

\* C10 witness: two turns of one user whose sends returned in the opposite
\* order of their chat calls
C10_Witness ==
    \E i, j \in 1..Len(turns) :
        /\ SameUserDone(i, j)
        /\ ChatPos(i) < ChatPos(j)
        /\ SendPos(j) < SendPos(i)
        /\ PairPos(RecentOf(turns[i].user_id), j) < PairPos(RecentOf(turns[i].user_id), i)
---------------------------------------------------------------------------
(* The order of a chat turn *)
PcOf(ts, k) == IF k \in 1..Len(ts) THEN ts[k].pc ELSE "none"
Dispatched(tks, k) == \E i \in 1..Len(tks) : tks[i].turn = k
TurnSteps ==
    { <<"none", "chat">>, <<"chat", "send">>, <<"send", "done">>, <<"send", "failed">> }

\* C11: a turn reads its context, then suspends in the chat call, then in
\* the send of the reply; the step in which the send returns appends the
\* exchange, saves it and only then dispatches the extraction, which is
\* still running when the handler has ended: the reply is sent before the
\* extraction starts and the handler never waits for it.
C11_ReplyBeforeExtraction ==
    [][ \A k \in 1..Len(turns') :
          LET was == PcOf(turns, k)
              is == PcOf(turns', k)
              t == turns'[k]
          IN  /\ was # is => <<was, is>> \in TurnSteps
              /\ (was = "none") =>
                     /\ t.recent_messages = heap'[RefOf(store', t.user_id)].recent_messages
                     /\ t.user_memory_context =
                            build_context_block(heap'[RefOf(store', t.user_id)])
                     /\ saveCalls' = 0
              /\ (Dispatched(tasks', k) /\ ~Dispatched(tasks, k))
                     <=> (was = "send" /\ is = "done")
              /\ (was = "send" /\ is = "done") =>
                     /\ t.answer # ""
                     /\ HasPair(heap'[t.mem].recent_messages, k)
                     /\ saveCalls' = 1
                     /\ disk' = JsonFile(Snapshot(heap', store'))
                     /\ Len(tasks') = Len(tasks) + 1
                     /\ tasks'[Len(tasks')] = Task(t.user_id, t.username, k) ]_vars

\* C11 witness: a turn has sent its reply and ended while the extraction it
\* dispatched is still running
C11_Witness ==
    \E k \in 1..Len(turns), i \in 1..Len(tasks) :
        /\ turns[k].pc = "done"
        /\ tasks[i].turn = k
        /\ tasks[i].state = "running"
        /\ HasPair(RecentOf(turns[k].user_id), k)
---------------------------------------------------------------------------
(* Records: get-or-create, clear, export *)
RecordOf(h, st, u) == h[RefOf(st, u)]

\* every Record of the Store but u's is the same before and after the step
OthersUnchanged(u) ==
    /\ Keys(store') \ {u} = Keys(store) \ {u}
    /\ \A v \in Keys(store) \ {u} : RecordOf(heap', store', v) = RecordOf(heap, store, v)

\* C12: clearing an existing user's memory empties recent_messages and
\* long_term_notes, keeps the Record in the Store (export still returns a
\* Record, now empty) and leaves last_seen and user_id unchanged.
C12_ClearResetsOnlyContent ==
    [][ (lastOp'.op = "clear" /\ lastOp'.user \in Keys(store)) =>
          LET u == lastOp'.user
              old == RecordOf(heap, store, u)
              new == RecordOf(heap', store', u)
              out == export_user_memory(heap', store', u)
          IN  /\ u \in Keys(store')
              /\ new.recent_messages = <<>>
              /\ new.long_term_notes = <<>>
              /\ new.last_seen = old.last_seen
              /\ new.user_id = old.user_id
              /\ out # None
              /\ out.doc.recent_messages = <<>> /\ out.doc.long_term_notes = <<>>
              /\ OthersUnchanged(u) ]_vars

\* C12 witness: a user who had exchanges and notes has been cleared; the
\* Record is still there, empty, with the last_seen of the exchange
C12_Witness ==
    /\ lastOp.op = "clear"
    /\ appended[lastOp.user] # <<>>
    /\ merged[lastOp.user] # <<>>
    /\ lastOp.user \in Keys(store)
    /\ RecordOf(heap, store, lastOp.user).recent_messages = <<>>
    /\ RecordOf(heap, store, lastOp.user).long_term_notes = <<>>
    /\ RecordOf(heap, store, lastOp.user).last_seen > 0

\* C19: get_user_memory creates exactly one empty Record for an unknown
\* user and returns the existing Record, with recent_messages,
\* long_term_notes and last_seen unchanged, for a known one; username
\* becomes the supplied value if that is non-empty and is left as it was if
\* it is empty; no user id ever has two Records.
C19_GetOrCreate ==
    [][ lastOp'.op = "get_or_create" =>
          LET u == lastOp'.user
              n == lastOp'.username
              new == RecordOf(heap', store', u)
          IN  /\ Keys(store') = Keys(store) \cup {u}
              /\ Len(store') = Cardinality(Keys(store'))
              /\ OthersUnchanged(u)
              /\ IF u \in Keys(store)
                 THEN LET old == RecordOf(heap, store, u)
                      IN  /\ new.user_id = old.user_id
                          /\ new.recent_messages = old.recent_messages
                          /\ new.long_term_notes = old.long_term_notes
                          /\ new.last_seen = old.last_seen
                          /\ new.username = IF n # "" THEN n ELSE old.username
                 ELSE new = [user_id |-> u, username |-> n, recent_messages |-> <<>>,
                             long_term_notes |-> <<>>, last_seen |-> 0] ]_vars

\* C19 witness: get_user_memory was called with an empty name for a known
\* user who has a name, exchanges and notes
C19_Witness ==
    /\ lastOp.op = "get_or_create"
    /\ lastOp.username = ""
    /\ RecordOf(heap, store, lastOp.user).username # ""
    /\ RecordOf(heap, store, lastOp.user).recent_messages # <<>>
    /\ RecordOf(heap, store, lastOp.user).long_term_notes # <<>>
    /\ Cardinality(Keys(store)) = 2

\* C20: export_user_memory changes nothing: for a user with no Record it
\* returns None and creates no Record, for a user with a Record it returns
\* that Record's snapshot.
C20_ExportReadOnly ==
    [][ lastOp'.op = "export" =>
          LET u == lastOp'.user
          IN  /\ heap' = heap /\ store' = store /\ disk' = disk /\ saveCalls' = 0
              /\ IF u \in Keys(store)
                 THEN lastOp'.result = [kind |-> "json", doc |-> RecordOf(heap, store, u)]
                 ELSE lastOp'.result = None /\ u \notin Keys(store') ]_vars

\* C20 witness: export of a user who has no Record, next to one who has
C20_Witness ==
    /\ lastOp.op = "export"
    /\ lastOp.result = None
    /\ lastOp.user \notin Keys(store)
    /\ \E v \in Keys(store) : RecordOf(heap, store, v).recent_messages # <<>>
---------------------------------------------------------------------------
(* Failed saves *)
\* the step called save_all and the write failed
FailedSave == saveCalls' = 1 /\ env'.faults = env.faults - 1

\* C16: a save_all that fails returns to its caller and alters no Record:
\* the exchange, the merged notes, the clear or the eviction that preceded
\* it stays applied in the Store, and the file is not the new snapshot.
C16_FailedSaveKeepsMutation ==
    [][ FailedSave =>
          /\ lastOp'.op \in {"exchange", "extract", "clear", "prune"}
          /\ disk' \in {disk, Truncated}
          /\ lastSaved' = lastSaved
          /\ lastOp'.op = "exchange" =>
                 LET old == RecordOf(heap, store, lastOp'.user)
                     new == RecordOf(heap', store', lastOp'.user)
                 IN  /\ new.recent_messages =
                            LastN(old.recent_messages
                                      \o <<Entry("user", "q1"), Entry("assistant", "a1")>>,
                                  2 * MAX_RECENT_MESSAGES)
                     /\ new.last_seen = now
          /\ lastOp'.op = "extract" =>
                 LET oldNotes == IF lastOp'.user \in Keys(store)
                                 THEN RecordOf(heap, store, lastOp'.user).long_term_notes
                                 ELSE <<>>
                     joined == IF oldNotes # <<>> THEN oldNotes \o <<NL>> \o NameSam ELSE NameSam
                 IN  RecordOf(heap', store', lastOp'.user).long_term_notes =
                         FirstN(joined, MAX_MEMORY_CHARS)
          /\ lastOp'.op = "clear" =>
                 /\ RecordOf(heap', store', lastOp'.user).recent_messages = <<>>
                 /\ RecordOf(heap', store', lastOp'.user).long_term_notes = <<>>
          /\ lastOp'.op = "prune" =>
                 /\ Expired(heap, store, now) # {}
                 /\ Keys(store') = Keys(store) \ Expired(heap, store, now) ]_vars

\* C16 witness: the save after an exchange failed; the Record holds the
\* exchange and the file does not
C16_Witness ==
    /\ lastOp.op = "exchange"
    /\ lastOp.outcome # "ok"
    /\ saveCalls = 1
    /\ RecordOf(heap, store, lastOp.user).recent_messages # <<>>
    /\ disk # JsonFile(Snapshot(heap, store))
---------------------------------------------------------------------------
(* Failed extractions *)

\* C17: an extraction call that fails leaves every field of every Record
\* unchanged, triggers no save, and changes no chat turn and no other
\* extraction task: the task alone ends.
C17_FailedExtractionIsolated ==
    [][ lastOp'.op = "extract_fail" =>
          /\ heap' = heap
          /\ store' = store
          /\ disk' = disk
          /\ saveCalls' = 0
          /\ turns' = turns
          /\ Len(tasks') = Len(tasks)
          /\ \A i \in 1..Len(tasks) :
                 tasks'[i] = IF i = lastOp'.task THEN [tasks[i] EXCEPT !.state = "done"]
                             ELSE tasks[i] ]_vars

\* C17 witness: the extraction of a user who already has notes failed while
\* the Record holds the exchange of the turn that dispatched it
C17_Witness ==
    /\ lastOp.op = "extract_fail"
    /\ lastOp.user \in Keys(store)
    /\ NotesOf(lastOp.user) # <<>>
    /\ tasks[lastOp.task].turn \in 1..Len(turns)
    /\ HasPair(RecentOf(lastOp.user), tasks[lastOp.task].turn)
---------------------------------------------------------------------------
(* The sweep and its save *)
\* the user ids of the members of a file
UidsIn(d) ==
    IF d.kind = "json" THEN {ParseInt(d.doc[i].key).val : i \in 1..Len(d.doc)} ELSE {}

\* C18: a sweep that removes at least one Record saves the Store in the same
\* step, so the file holds the Store without the evicted Records before
\* anything else runs; a sweep that removes nothing saves nothing.
C18_SweepSavesIffRemoved ==
    [][ lastOp'.op = "prune" =>
          IF Expired(heap, store, now) # {}
          THEN /\ saveCalls' = 1
               /\ disk' = JsonFile(Snapshot(heap', store'))
               /\ UidsIn(disk') = Keys(store) \ Expired(heap, store, now)
          ELSE /\ saveCalls' = 0
               /\ disk' = disk ]_vars

\* C18 witness: a sweep evicted a Record that the file held and kept
\* another; the file now holds only the Record kept
C18_Witness ==
    /\ lastOp.op = "prune"
    /\ lastOp.removed # {}
    /\ \A r \in lastOp.removed : appended[r.uid] # <<>> /\ r.uid \notin UidsIn(disk)
    /\ UidsIn(disk) # {}
    /\ UidsIn(disk) = Keys(store)
---------------------------------------------------------------------------
(* Imports and the load of a damaged file *)

\* a payload import_user_memory is to reject: not JSON, not an object, or an
\* object without user_id
MalformedUserPayload(raw) ==
    \/ raw.kind = "invalid"
    \/ ~IsDict(raw.value)
    \/ "user_id" \notin DOMAIN raw.value

\* C13: import_user_memory given a malformed payload returns an error as a
\* value, without raising, and leaves the Store and the file unchanged;
\* given a well-formed payload it overwrites that user's Record wholesale.
C13_ImportUserValidates ==
    [][ lastOp'.op = "import_user" =>
          LET raw == UserPayloads[lastOp'.input]
              u == lastOp'.user
          IN  IF MalformedUserPayload(raw)
              THEN /\ ~lastOp'.raised
                   /\ lastOp'.result # "ok"
                   /\ StoreView(heap', store') = StoreView(heap, store)
                   /\ disk' = disk
              ELSE /\ ~lastOp'.raised
                   /\ lastOp'.result = "ok"
                   /\ RecordOf(heap', store', u) =
                          UserMemory(u, Get(raw.value, "username", ""),
                                     Get(raw.value, "recent_messages", <<>>),
                                     Get(raw.value, "long_term_notes", <<>>),
                                     Get(raw.value, "last_seen", now))
                   /\ OthersUnchanged(u) ]_vars

\* C13: import_user_memory raised on a payload that is not an object
C13_Witness ==
    /\ lastOp.op = "import_user"
    /\ MalformedUserPayload(UserPayloads[lastOp.input])
    /\ lastOp.raised

\* an entry import_all_memories and load_all can turn into a Record
WellFormedEntry(m) == ParseInt(m.key).ok /\ IsDict(m.blob)

\* C14: import_all_memories given a mapping skips every malformed entry
\* without raising and without aborting the remaining entries; the Store
\* gains exactly the well-formed entries and the count is their number.
C14_ImportAllSkipsMalformed ==
    [][ (lastOp'.op = "import_all" /\ AllPayloads[lastOp'.input].kind = "json") =>
          LET doc == AllPayloads[lastOp'.input].doc
              good == {i \in 1..Len(doc) : WellFormedEntry(doc[i])}
              written == {ParseInt(doc[i].key).val : i \in good}
          IN  /\ ~lastOp'.raised
              /\ lastOp'.result.count = Cardinality(good)
              /\ Keys(store') = Keys(store) \cup written
              /\ \A v \in Keys(store) \ written :
                     RecordOf(heap', store', v) = RecordOf(heap, store, v) ]_vars

\* C14: import_all_memories raised on a mapping with a malformed entry,
\* after it had written the entry before it
C14_Witness ==
    /\ lastOp.op = "import_all"
    /\ AllPayloads[lastOp.input].kind = "json"
    /\ lastOp.raised
    /\ store # <<>>

\* a file every member of which load_all can turn into a Record
FileIntact(d) == d.kind = "json" /\ \A i \in 1..Len(d.doc) : WellFormedEntry(d.doc[i])

\* C15: load_all at process start over a missing file, or over a corrupt one
\* (one bad member among good ones included), yields an empty Store.
C15_LoadAllOrNothing ==
    (lastOp.op = "load_all" /\ lastOp.intoEmpty /\ ~FileIntact(disk)) => store = <<>>

\* C15: load_all met a bad member after a good one and left the good one in
\* the Store
C15_Witness ==
    /\ lastOp.op = "load_all"
    /\ lastOp.intoEmpty
    /\ ~FileIntact(disk)
    /\ store # <<>>
---------------------------------------------------------------------------
(* The context block of a turn *)
NameOnly == SubSeq(NameSam, 3, Len(NameSam))   \* "Name: Sam"

\* C21: the context block a turn builds is empty exactly when the user's
\* long_term_notes are empty and is otherwise the label followed by the
\* notes verbatim; once "- Name: Sam" has been merged for a user, the block
\* of that user's next turn contains "Name: Sam".
C21_ContextBlockHoldsNotes ==
    [][ \A k \in 1..Len(turns') :
          PcOf(turns, k) = "none" =>
              LET u == turns'[k].user_id
                  notes == heap'[RefOf(store', u)].long_term_notes
                  block == turns'[k].user_memory_context
              IN  /\ (block = <<>>) <=> (notes = <<>>)
                  /\ notes # <<>> =>
                         /\ IsPrefix(MemoryLabel, block)
                         /\ SubSeq(block, Len(MemoryLabel) + 1, Len(block)) = notes
                  /\ merged[u] # <<>> => IsSubstring(NameOnly, block) ]_vars

\* C21 witness: a user's first exchange was stored, its extraction returned
\* "- Name: Sam", and the user's next turn was given a block with "Name: Sam"
C21_Witness ==
    \E j, k \in 1..Len(turns) :
        /\ j < k
        /\ turns[j].user_id = turns[k].user_id
        /\ turns[j].pc = "done"
        /\ turns[j].recent_messages = <<>>
        /\ turns[k].pc = "chat"
        /\ merged[turns[k].user_id] = <<NameSam>>
        /\ IsSubstring(NameOnly, turns[k].user_memory_context)
        /\ HasPair(turns[k].recent_messages, j)
---------------------------------------------------------------------------
(* Snapshots, failed chat calls and clears among the turns *)

\* user and assistant entries alternate, starting with user, and pair up
Paired(recent) ==
    /\ Len(recent) % 2 = 0
    /\ \A i \in 1..Len(recent) :
           recent[i].role = IF i % 2 = 1 THEN "user" ELSE "assistant"

\* C22: no snapshot written by save_all holds a Record with an unpaired
\* entry: in the file every recent_messages has even length and alternates
\* user, assistant, under every interleaving of turns, extractions and clears.
C22_SnapshotsHoldPairs ==
    disk.kind = "json" =>
        \A i \in 1..Len(disk.doc) : Paired(disk.doc[i].blob.recent_messages)

\* C22 witness: a snapshot written by an extraction's save that holds two
\* exchanges and notes
C22_Witness ==
    /\ disk.kind = "json"
    /\ lastOp.op = "extract_return"
    /\ saveCalls = 1
    /\ \E i \in 1..Len(disk.doc) :
           /\ Len(disk.doc[i].blob.recent_messages) = 4
           /\ disk.doc[i].blob.long_term_notes # <<>>

\* the chat call of turn k has returned an error
ChatFailed(k) == turns[k].pc # "chat" /\ turns[k].answer = ChatErrorText

\* some Record of the Store, or of the file, holds text as an assistant entry
StoredAsAnswer(text) ==
    \/ \E u \in Keys(store) : \E i \in 1..Len(RecentOf(u)) :
           RecentOf(u)[i] = Entry("assistant", text)
    \/ /\ disk.kind = "json"
       /\ \E m \in 1..Len(disk.doc) : \E i \in 1..Len(disk.doc[m].blob.recent_messages) :
              disk.doc[m].blob.recent_messages[i] = Entry("assistant", text)

\* C24: a turn whose chat call returned an error appends nothing, persists
\* nothing and dispatches no extraction: the error text is never stored as
\* an assistant entry.
C24_FailedChatNotStored ==
    /\ ~StoredAsAnswer(ChatErrorText)
    /\ \A k \in 1..Len(turns) : ChatFailed(k) => ~Dispatched(tasks, k)

\* C24: a turn whose chat call failed has ended with the error text stored
\* and saved as its assistant entry and an extraction dispatched for it
C24_Witness ==
    \E k \in 1..Len(turns) :
        /\ ChatFailed(k)
        /\ turns[k].pc = "done"
        /\ HasPair(RecentOf(turns[k].user_id), k)
        /\ StoredAsAnswer(ChatErrorText)
        /\ Dispatched(tasks, k)

\* turns of user u that have completed, and those whose exchange is still
\* in the Record (the Store starts empty and the window cap is out of
\* reach, so an exchange that is gone was cleared after it completed)
DoneTurns(u) == {k \in 1..Len(turns) : turns[k].user_id = u /\ turns[k].pc = "done"}
KeptTurns(u) == {k \in DoneTurns(u) : HasPair(RecentOf(u), k)}

\* C27: when every exchange of a user that has completed was cleared
\* afterwards, so that no exchange completed after the last clear, the
\* user's long_term_notes are empty: an extraction of an exchange that
\* preceded the clear does not write into the cleared Record.
C27_ClearedNotesStayEmpty ==
    \A u \in Keys(store) :
        (DoneTurns(u) # {} /\ KeptTurns(u) = {}) => NotesOf(u) = <<>>

\* C27: the extraction of a cleared exchange returned after the clear and
\* its facts are in the notes
C27_Witness ==
    /\ lastOp.op = "extract_return"
    /\ HasNewFacts(lastOp.new_facts)
    /\ DoneTurns(lastOp.user) # {}
    /\ KeptTurns(lastOp.user) = {}
    /\ NotesOf(lastOp.user) # <<>>
---------------------------------------------------------------------------
(* Reload and sweep among the turns *)

\* the file holds the exchange of turn k under its user's id
SnapshotHasPair(k) ==
    /\ disk.kind = "json"
    /\ \E m \in 1..Len(disk.doc) :
           /\ ParseInt(disk.doc[m].key).ok
           /\ ParseInt(disk.doc[m].key).val = turns[k].user_id
           /\ HasPair(disk.doc[m].blob.recent_messages, k)

\* C25: a reload or a sweep that runs while a turn is suspended does not
\* lose the turn's exchange: once the turn has completed, the Record the
\* Store holds under the user's id has the pair and so has the snapshot.
C25_ReloadKeepsExchange ==
    \A k \in 1..Len(turns) :
        turns[k].pc = "done" =>
            /\ turns[k].user_id \in Keys(store)
            /\ HasPair(RecentOf(turns[k].user_id), k)
            /\ SnapshotHasPair(k)

\* C25: on_ready ran while a turn was suspended; the turn has completed and
\* its exchange is neither in the Store nor in the file
C25_Witness ==
    \E k \in 1..Len(turns) :
        /\ turns[k].pc = "done"
        /\ env.loaded
        /\ turns[k].user_id \in Keys(store)
        /\ RefOf(store, turns[k].user_id) # turns[k].mem
        /\ ~HasPair(RecentOf(turns[k].user_id), k)
        /\ ~SnapshotHasPair(k)
---------------------------------------------------------------------------
(* Per-user isolation *)

PerUserOps == {"get_or_create", "exchange", "extract", "clear"}

\* C29: a get_user_memory, an add_exchange, a note merge or a clear done
\* for user u leaves the Record of every other user as it was and neither
\* adds nor removes another user's key in the Store.
C29_PerUserIsolation ==
    [][lastOp'.op \in PerUserOps => OthersUnchanged(lastOp'.user)]_vars

\* C29: an exchange was just added for one user while the Store holds
\* another user whose Record has an exchange and notes of its own
C29_Witness ==
    /\ lastOp.op = "exchange"
    /\ \E v \in Keys(store) \ {lastOp.user} :
           /\ Len(RecentOf(v)) = 2
           /\ NotesOf(v) # <<>>
    /\ lastOp.user \in Keys(store)
    /\ Len(RecentOf(lastOp.user)) = 2
---------------------------------------------------------------------------
(* The Store after imports and loads *)

\* C23: in every reachable state of the Store, the states reached by
\* import_user_memory, import_all_memories and load_all over well-formed
\* payloads included, every Record holds at most 20 recent messages and at
\* most 1000 characters of notes.
C23_CapsHoldAfterImport ==
    \A u \in Keys(store) :
        /\ Len(RecentOf(u)) <= 2 * MAX_RECENT_MESSAGES
        /\ Len(NotesOf(u)) <= MAX_MEMORY_CHARS

\* C23: an import or a load has just stored a well-formed Record of 22
\* messages and 1001 characters of notes as it came
C23_Witness ==
    /\ lastOp.op \in {"import_user", "import_all", "load_all"}
    /\ \E u \in Keys(store) :
           /\ RecentOf(u) = BigRecent
           /\ NotesOf(u) = BigNotes

\* C26: each key of the Store occurs once and maps to a Record whose
\* user_id is that key, whatever user_id the payload it came from carried.
C26_KeyIsUserId ==
    /\ \A i, j \in 1..Len(store) : store[i].uid = store[j].uid => i = j
    /\ \A u \in Keys(store) : RecordOf(heap, store, u).user_id = u

\* C26: the Store holds under 42 the Record that came from a payload
\* carrying user_id 7, next to the Record of user 7
C26_Witness ==
    /\ {7, 42} \subseteq Keys(store)
    /\ RecentOf(42) = RecSam.recent_messages
    /\ NotesOf(42) = RecSam.long_term_notes
    /\ RecordOf(heap, store, 42).user_id = 42

\* the three fields of every Record of a Store
FieldsOf(h, st) ==
    [u \in Keys(st) |-> [recent_messages |-> RecordOf(h, st, u).recent_messages,
                         long_term_notes |-> RecordOf(h, st, u).long_term_notes,
                         last_seen |-> RecordOf(h, st, u).last_seen]]

\* the members of a snapshot that hold a Record
Persisted(d) ==
    IF d.kind = "json" THEN {i \in 1..Len(d.doc) : WellFormedEntry(d.doc[i])} ELSE {}

PersistedUids(d) == {ParseInt(d.doc[i].key).val : i \in Persisted(d)}

\* the three fields of every user of a snapshot, as load_all reads them
FieldsIn(d) ==
    [u \in PersistedUids(d) |->
        LET i == CHOOSE i \in Persisted(d) : ParseInt(d.doc[i].key).val = u
            mem == FromBlob(u, d.doc[i].blob)
        IN  [recent_messages |-> mem.recent_messages,
             long_term_notes |-> mem.long_term_notes,
             last_seen |-> mem.last_seen]]

\* the snapshot and the Store agree on every user both of them hold
SnapshotAgrees(d, h, st) ==
    \A u \in PersistedUids(d) \cap Keys(st) : FieldsIn(d)[u] = FieldsOf(h, st)[u]

MutatingOps == {"exchange", "extract", "clear", "import_user", "import_all"}

\* C28: a step that changes recent_messages, long_term_notes or last_seen
\* of a Record of the Store (add_exchange, note merge, clear, single or
\* bulk import) saves in the same step: after it the file is the snapshot
\* of the Store and agrees with it on those fields for every persisted user.
C28_MutationIsSaved ==
    [][ (lastOp'.op \in MutatingOps /\ FieldsOf(heap', store') # FieldsOf(heap, store)) =>
            /\ saveCalls' = 1
            /\ SnapshotAgrees(disk', heap', store') ]_vars

\* C28: a bulk import has replaced the Record of a persisted user and
\* raised before its save; the file still holds the user's earlier fields
C28_Witness ==
    /\ lastOp.op = "import_all"
    /\ lastOp.raised
    /\ ~SnapshotAgrees(disk, heap, store)
====
